---------------------------- MODULE Spec2Model ----------------------------
(***************************************************************************)
(* A state-machine model of scratch/aodv.cc: the AodvExample driver that   *)
(* builds a line of wifi nodes, installs AODV and one OnOff flow, and runs *)
(* the discrete-event simulator.                                           *)
(*                                                                         *)
(* The driver (class AodvExample) is translated from the source.  The      *)
(* services it calls (Simulator, GridPositionAllocator, Ipv4AddressHelper, *)
(* OnOffApplication, the wifi channel, UniformRandomVariable) are not part *)
(* of the source file; they are modelled from the written design and are   *)
(* marked as such in the model map.                                        *)
(*                                                                         *)
(* Simulated time is counted in ticks, TicksPerSecond ticks to a second.   *)
(***************************************************************************)
EXTENDS Integers, Sequences, FiniteSets

(***************************************************************************)
(* Bounds of the model                                                     *)
(***************************************************************************)
\* largest --size given on the command line
MaxSize == 3
\* largest --step given on the command line
MaxStep == 1
\* largest --time given on the command line, in seconds
MaxTotalTime == 11
\* largest delivery delay of the channel, in ticks
MaxDelay == 1
\* resolution of simulated time
TicksPerSecond == 2

(***************************************************************************)
(* Constants of the program                                                *)
(***************************************************************************)
DefaultSize == 10
DefaultStep == 100
DefaultTotalTime == 100
DefaultPcap == FALSE
DefaultPrintRoutes == TRUE
\* InetSocketAddress (..., 80)
SinkPort == 80

\* uint32_t, as two halves of 16 bits: <<high, low>>
Half == 65536

NoNode == -1
NoAddr == <<>>
NoPkt == -1
Lost == -1

Seconds(s) == s * TicksPerSecond

VARIABLES
  pc,           \* position of main () / Run ()
  size, step, totalTime, pcap, printRoutes,   \* the parameters
  nodes,        \* NodeContainer: sequence of [id, name, pos]
  devices,      \* NetDeviceContainer: sequence of node ids
  pcapFiles,    \* devices with a capture file
  interfaces,   \* Ipv4InterfaceContainer: sequence of addresses
  sockets,      \* the receive sockets: set of [node, ip, port, cb]
  rxBuffer,     \* per node, the packets waiting in the receive socket
  flows,        \* the OnOff applications installed: sequence of records
  appState,     \* "none", "installed", "on", "stopped"
  simImpl,      \* "ready", "running", "stopped", "destroyed"
  now,          \* Simulator::Now ()
  queue,        \* pending events: set of [time, uid, kind, node, pkt]
  nextUid,      \* insertion sequence number of the next event
  stopFlag,     \* the scheduler's stop request
  packets,      \* history: the packets created, in order of their ids
  dispatched,   \* history: the events dispatched, in order
  trace,        \* history: the lines written by NS_LOG_UNCOND, in order
  snapshots,    \* number of routing table dumps written
  stopCalls, runCalls, destroyCalls   \* calls of Simulator::Stop/Run/Destroy

params == <<size, step, totalTime, pcap, printRoutes>>
topology == <<nodes, devices, pcapFiles, interfaces>>
apps == <<sockets, rxBuffer, flows, appState>>
sched == <<simImpl, now, queue, nextUid, stopFlag>>
history == <<packets, dispatched, trace, snapshots>>
calls == <<stopCalls, runCalls, destroyCalls>>
vars == <<pc, params, topology, apps, sched, history, calls>>

(***************************************************************************)
(* Addresses                                                               *)
(***************************************************************************)
\* Ipv4Address ("a.b.c.d"): the four octets of the 32-bit address
Ipv4(a, b, c, d) == <<a, b, c, d>>

\* bitwise and / or of two numbers of n bits
RECURSIVE BitAnd(_, _, _)
BitAnd(x, y, n) ==
  IF n = 0 THEN 0
  ELSE (x % 2) * (y % 2) + 2 * BitAnd(x \div 2, y \div 2, n - 1)
RECURSIVE BitOr(_, _, _)
BitOr(x, y, n) ==
  IF n = 0 THEN 0
  ELSE (IF (x % 2) + (y % 2) > 0 THEN 1 ELSE 0)
       + 2 * BitOr(x \div 2, y \div 2, n - 1)

\* address.SetBase ("10.0.0.0", "255.0.0.0")
NetworkBase_Wrong == Ipv4(11, 0, 0, 0)
NetworkBase == Ipv4(10, 0, 0, 0)
NetworkMask == Ipv4(255, 0, 0, 0)

\* Ipv4Address::CombineMask
CombineMask(addr, mask) == [k \in 1..4 |-> BitAnd(addr[k], mask[k], 8)]

\* the largest host number of the pool: the bits the mask leaves free
MaxHost(mask) ==
  (((255 - mask[1]) * 256 + (255 - mask[2])) * 256 + (255 - mask[3])) * 256
  + (255 - mask[4])

\* number of addresses of the pool: hosts 1 .. MaxHost - 1
PoolSize(mask) == MaxHost(mask) - 1

\* a host number as an address
HostAddress(h) ==
  Ipv4(h \div 16777216, (h \div 65536) % 256, (h \div 256) % 256, h % 256)

\* Ipv4AddressHelper::NewAddress: network | host
NewAddress(network, h) ==
  [k \in 1..4 |-> BitOr(network[k], HostAddress(h)[k], 8)]

\* Ipv4AddressHelper::Assign: the devices get the hosts 1, 2, ... in order
Assign(devs, network, mask) ==
  [k \in 1..Len(devs) |-> NewAddress(CombineMask(network, mask), k)]

Ipv4AddressGetAny == Ipv4(0, 0, 0, 0)
InetSocketAddress(ip, port) == [type |-> "inet", ip |-> ip, port |-> port]
IsMatchingType(addr) == addr.type = "inet"

\* the node that owns an address, NoNode when no interface has it
NodeOfAddress(ifaces, ip) ==
  IF \E k \in 1..Len(ifaces) : ifaces[k] = ip
  THEN (CHOOSE k \in 1..Len(ifaces) : ifaces[k] = ip) - 1
  ELSE NoNode

(***************************************************************************)
(* Topology                                                                *)
(***************************************************************************)
\* the attributes given to ns3::GridPositionAllocator in CreateNodes
GridMinX == 0
GridMinY == 0
GridDeltaX == step
GridDeltaY == 0
\* a two-row grid instead of a line
GridWidth_Wrong == size \div 2 + 1
GridWidth == size

\* GridPositionAllocator::GetNext with LayoutType RowFirst, for the i-th node
GridPosition(i, minX, minY, deltaX, deltaY, width) ==
  <<minX + deltaX * (i % width), minY + deltaY * (i \div width)>>

\* os << "node-" << i
NodeName(i) == <<"node-", i>>

(***************************************************************************)
(* The command line                                                        *)
(***************************************************************************)
\* cmd.Parse: a flag given on the command line replaces the default
SizeFlags == (0..MaxSize) \cup {DefaultSize}
StepFlags == (0..MaxStep) \cup {DefaultStep}
TimeFlags == (0..MaxTotalTime) \cup {DefaultTotalTime}

(***************************************************************************)
(* Init: the state after AodvExample::AodvExample ()                       *)
(***************************************************************************)
Init ==
  /\ pc = "Configure"
  /\ size = DefaultSize
  /\ step = DefaultStep
  /\ totalTime = DefaultTotalTime
  /\ pcap = DefaultPcap
  /\ printRoutes = DefaultPrintRoutes
  /\ nodes = <<>>
  /\ devices = <<>>
  /\ pcapFiles = {}
  /\ interfaces = <<>>
  /\ sockets = {}
  /\ rxBuffer = <<>>
  /\ flows = <<>>
  /\ appState = "none"
  /\ simImpl = "ready"
  /\ now = 0
  /\ queue = {}
  /\ nextUid = 0
  /\ stopFlag = FALSE
  /\ packets = <<>>
  /\ dispatched = <<>>
  /\ trace = <<>>
  /\ snapshots = 0
  /\ stopCalls = 0
  /\ runCalls = 0
  /\ destroyCalls = 0

(***************************************************************************)
(* AodvExample::Configure                                                  *)
(***************************************************************************)
Configure ==
  /\ pc = "Configure"
  /\ \E sz \in SizeFlags, st \in StepFlags, tm \in TimeFlags,
        pp \in BOOLEAN, pr \in BOOLEAN :
       /\ size' = sz
       /\ step' = st
       /\ totalTime' = tm
       /\ pcap' = pp
       /\ printRoutes' = pr
  /\ pc' = "CreateNodes"
  /\ UNCHANGED <<topology, apps, sched, history, calls>>

(***************************************************************************)
(* AodvExample::CreateNodes                                                *)
(***************************************************************************)
CreateNodes ==
  /\ pc = "CreateNodes"
  /\ nodes' = [k \in 1..size |->
                 [id |-> k - 1,
                  name |-> NodeName(k - 1),
                  pos |-> GridPosition(k - 1, GridMinX, GridMinY,
                                       GridDeltaX, GridDeltaY, GridWidth)]]
  /\ pc' = "CreateDevices"
  /\ UNCHANGED <<params, devices, pcapFiles, interfaces, apps, sched,
                 history, calls>>

(***************************************************************************)
(* AodvExample::CreateDevices                                              *)
(***************************************************************************)
\* WifiHelper::Install: one device per node of the container, in order
WifiInstall(c) == [k \in 1..Len(c) |-> c[k].id]

CreateDevices ==
  /\ pc = "CreateDevices"
  /\ devices' = WifiInstall(nodes)
  /\ pcapFiles' = IF pcap THEN 1..Len(nodes) ELSE {}
  /\ pc' = "InstallInternetStack"
  /\ UNCHANGED <<params, nodes, interfaces, apps, sched, history, calls>>

(***************************************************************************)
(* The scheduler (Simulator)                                               *)
(***************************************************************************)
Event(t, uid, kind, node, pkt) ==
  [time |-> t, uid |-> uid, kind |-> kind, node |-> node, pkt |-> pkt]

\* ordering key of the queue: (time, insertion sequence)
Before(e, f) == e.time < f.time \/ (e.time = f.time /\ e.uid <= f.uid)
NextEvent(q) == CHOOSE e \in q : \A f \in q : Before(e, f)

\* the dispatch loop of Simulator::Run is running and has an event to take
Dispatching ==
  /\ pc \in {"InstallApplications_Run", "Run_Run"}
  /\ queue # {}
  /\ ~stopFlag

\* what every dispatch does: take the event off the queue, advance the clock
Dispatch(e) ==
  /\ now' = e.time
  /\ dispatched' = Append(dispatched, [time |-> e.time, kind |-> e.kind,
                                        node |-> e.node, pkt |-> e.pkt])

(***************************************************************************)
(* AodvExample::InstallInternetStack                                       *)
(***************************************************************************)
\* aodv.PrintRoutingTableAllAt (Seconds (8), routingStream)
PrintRoutesTime == Seconds(8)

InstallInternetStack ==
  /\ pc = "InstallInternetStack"
  \* address-pool exhaustion is fatal
  /\ pc' = IF Len(devices) <= PoolSize(NetworkMask)
           THEN "InstallApplications" ELSE "aborted"
  /\ interfaces' = IF Len(devices) <= PoolSize(NetworkMask)
                   THEN Assign(devices, NetworkBase, NetworkMask)
                   ELSE interfaces
  /\ queue' = IF printRoutes
              THEN queue \cup {Event(now + PrintRoutesTime, nextUid,
                                     "PrintRoutingTable", NoNode, NoPkt)}
              ELSE queue
  /\ nextUid' = IF printRoutes THEN nextUid + 1 ELSE nextUid
  /\ UNCHANGED <<params, nodes, devices, pcapFiles, apps, simImpl, now,
                 stopFlag, history, calls>>

(***************************************************************************)
(* AodvExample::InstallApplications, up to the call of Simulator::Run      *)
(***************************************************************************)
\* for (uint32_t i = 0; i < nodes.GetN (); i++): the nodes given a sink
SinkNodes_Wrong == 0..(Len(nodes) - 2)
SinkNodes == 0..(Len(nodes) - 1)

\* recvSink->Bind (local); recvSink->SetRecvCallback (...)
RecvSink(i) ==
  [node |-> i, ip |-> Ipv4AddressGetAny, port |-> SinkPort,
   cb |-> "ReceiveRoutingPacket"]

\* n - 1 computed in uint32_t: 0 - 1 wraps to 2^32 - 1
UInt32Pred(n) ==
  <<((n \div Half) + Half - (IF n % Half = 0 THEN 1 ELSE 0)) % Half,
    ((n % Half) + Half - 1) % Half>>
UInt32(n) == <<(n \div Half) % Half, n % Half>>
\* i < n for a uint32_t i and a container size n < 2^16
Below(i, n) == i[1] = 0 /\ i[2] < n
\* the index as a number, for an index below the size of a container
Index(i) == i[2]

\* the middle node instead of the last one
RemoteIndex_Wrong == UInt32(size \div 2)
\* size - 1
RemoteIndex == UInt32Pred(size)

\* var->GetValue (1.0, 2.0): a value of [min, max)
GetValue(min, max) == {t \in Seconds(min)..Seconds(max) : t < Seconds(max)}

\* temp.Stop (Seconds (10))
FlowStopTime_Wrong == Seconds(12)
FlowStopTime == Seconds(10)

\* Simulator::Stop (Seconds (totalTime))
StopDelay_Wrong == Seconds(totalTime) + Seconds(1)
StopDelay == Seconds(totalTime)

\* what reading past the end of a container can give: an abort, or a
\* value that belongs to no node
Got(v) == [abort |-> FALSE, value |-> v]
Abort == [abort |-> TRUE]

\* interfaces.GetAddress (i): the outcomes
GetAddress(i) ==
  IF Below(i, Len(interfaces)) THEN {Got(interfaces[Index(i) + 1])}
  ELSE {Abort, Got(Ipv4(0, 0, 0, 0)), Got(Ipv4(255, 255, 255, 255))}
\* nodes.Get (i): the outcomes
NodesGet(i) ==
  IF Below(i, Len(nodes)) THEN {Got(nodes[Index(i) + 1].id)}
  ELSE {Abort, Got(NoNode)}

InstallApplications ==
  /\ pc = "InstallApplications"
  /\ sockets' = {RecvSink(i) : i \in SinkNodes}
  /\ rxBuffer' = [i \in SinkNodes |-> <<>>]
  /\ \E dest \in GetAddress(RemoteIndex), src \in NodesGet(UInt32(0)),
        start \in GetValue(1, 2) :
       IF dest.abort \/ src.abort
       THEN /\ pc' = "aborted"
            /\ UNCHANGED <<flows, appState, sched, calls>>
       ELSE /\ pc' = "InstallApplications_Run"
            /\ flows' = Append(flows,
                 [node |-> src.value,
                  remote |-> InetSocketAddress(dest.value, SinkPort),
                  start |-> start,
                  stop |-> FlowStopTime])
            /\ appState' = "installed"
            /\ queue' = queue \cup
                 {Event(now + start, nextUid, "StartApplication",
                        src.value, NoPkt),
                  Event(now + FlowStopTime, nextUid + 1, "StopApplication",
                        src.value, NoPkt),
                  Event(now + StopDelay, nextUid + 2, "Stop", NoNode, NoPkt)}
            /\ nextUid' = nextUid + 3
            /\ stopCalls' = stopCalls + 1
            /\ runCalls' = runCalls + 1
            /\ simImpl' = "running"
            /\ UNCHANGED <<now, stopFlag, destroyCalls>>
  /\ UNCHANGED <<params, topology, history>>

(***************************************************************************)
(* The flow: OnOffApplication on the source node                           *)
(***************************************************************************)
\* time between two packets of the flow while it is on
SendInterval == Seconds(3)

\* OnOffApplication::StartApplication
StartApplication ==
  /\ Dispatching
  /\ NextEvent(queue).kind = "StartApplication"
  /\ Dispatch(NextEvent(queue))
  /\ appState' = "on"
  /\ queue' = (queue \ {NextEvent(queue)}) \cup
       {Event(NextEvent(queue).time + SendInterval, nextUid, "Send",
              NextEvent(queue).node, NoPkt)}
  /\ nextUid' = nextUid + 1
  /\ UNCHANGED <<pc, params, topology, sockets, rxBuffer, flows, simImpl,
                 stopFlag, packets, trace, snapshots, calls>>

\* OnOffApplication::StopApplication: the pending send is cancelled
StopApplication ==
  /\ Dispatching
  /\ NextEvent(queue).kind = "StopApplication"
  /\ Dispatch(NextEvent(queue))
  /\ appState' = "stopped"
  /\ queue' = {e \in queue \ {NextEvent(queue)} : e.kind # "Send"}
  /\ UNCHANGED <<pc, params, topology, sockets, rxBuffer, flows, simImpl,
                 nextUid, stopFlag, packets, trace, snapshots, calls>>

(***************************************************************************)
(* AodvExample::OnOffTrace                                                 *)
(***************************************************************************)
OnOffTrace_Wrong(t, source, dest, p) == <<>>
OnOffTrace(t, source, dest, p) ==
  <<[time |-> t, kind |-> "tx", node |-> NoNode,
     src |-> IF IsMatchingType(source) THEN source.ip ELSE NoAddr,
     dst |-> IF IsMatchingType(dest) THEN dest.ip ELSE NoAddr,
     pkt |-> p]>>

\* the address a node sends from; a node that does not exist has none
LocalAddress(n) ==
  IF n \in 0..(Len(interfaces) - 1)
  THEN InetSocketAddress(interfaces[n + 1], 49153)
  ELSE InetSocketAddress(Ipv4AddressGetAny, 49153)

\* what the channel does with a packet: loses it, or delivers it to the
\* node that owns the destination address after a delay
ChannelOutcomes(dest) ==
  IF NodeOfAddress(interfaces, dest.ip) = NoNode THEN {Lost}
  ELSE {Lost} \cup (0..MaxDelay)

\* OnOffApplication::SendPacket: the transmit trace fires, the packet goes
\* to the channel, and the next packet is scheduled
SendPacket ==
  /\ Dispatching
  /\ NextEvent(queue).kind = "Send"
  /\ Dispatch([NextEvent(queue) EXCEPT !.pkt = Len(packets)])
  /\ packets' = Append(packets,
       [id |-> Len(packets),
        from |-> LocalAddress(NextEvent(queue).node),
        to |-> flows[1].remote,
        sent |-> NextEvent(queue).time])
  /\ trace' = trace \o OnOffTrace(NextEvent(queue).time,
                                  LocalAddress(NextEvent(queue).node),
                                  flows[1].remote, Len(packets))
  /\ \E d \in ChannelOutcomes(flows[1].remote) :
       /\ queue' = (queue \ {NextEvent(queue)})
            \cup {Event(NextEvent(queue).time + SendInterval, nextUid, "Send",
                        NextEvent(queue).node, NoPkt)}
            \cup (IF d = Lost THEN {}
                  ELSE {Event(NextEvent(queue).time + d, nextUid + 1,
                              "Receive",
                              NodeOfAddress(interfaces, flows[1].remote.ip),
                              Len(packets))})
       /\ nextUid' = nextUid + 2
  /\ UNCHANGED <<pc, params, topology, apps, simImpl, stopFlag, snapshots,
                 calls>>

(***************************************************************************)
(* AodvExample::ReceiveRoutingPacket                                       *)
(***************************************************************************)
PrintReceivedRoutingPacket(t, nodeId, packet, srcAddress) ==
  [time |-> t, kind |-> "rx", node |-> nodeId,
   src |-> IF IsMatchingType(srcAddress) THEN srcAddress.ip ELSE NoAddr,
   dst |-> NoAddr,
   pkt |-> packet.id]

\* while ((packet = socket->RecvFrom (srcAddress))): one line per packet
ReceiveRoutingPacket_Wrong(t, nodeId, buffer) == <<>>
ReceiveRoutingPacket(t, nodeId, buffer) ==
  [k \in 1..Len(buffer) |->
     PrintReceivedRoutingPacket(t, nodeId, buffer[k], buffer[k].from)]

\* a socket of the node is bound to the port and has a receive callback
HasSink(n, port) ==
  \E sk \in sockets : sk.node = n /\ sk.port = port
                      /\ sk.cb = "ReceiveRoutingPacket"

\* delivery of a packet to a node: it is queued on the socket bound to its
\* port and the receive callback drains the socket
Receive ==
  /\ Dispatching
  /\ NextEvent(queue).kind = "Receive"
  /\ Dispatch(NextEvent(queue))
  /\ queue' = queue \ {NextEvent(queue)}
  /\ trace' =
       IF HasSink(NextEvent(queue).node, packets[NextEvent(queue).pkt + 1].to.port)
       THEN trace \o ReceiveRoutingPacket(NextEvent(queue).time,
              NextEvent(queue).node,
              Append(rxBuffer[NextEvent(queue).node],
                     packets[NextEvent(queue).pkt + 1]))
       ELSE trace
  /\ rxBuffer' = rxBuffer
  /\ UNCHANGED <<pc, params, topology, sockets, flows, appState, simImpl,
                 nextUid, stopFlag, packets, snapshots, calls>>

(***************************************************************************)
(* The routing table dump and the stop event                               *)
(***************************************************************************)
PrintRoutingTable ==
  /\ Dispatching
  /\ NextEvent(queue).kind = "PrintRoutingTable"
  /\ Dispatch(NextEvent(queue))
  /\ queue' = queue \ {NextEvent(queue)}
  /\ snapshots' = snapshots + 1
  /\ UNCHANGED <<pc, params, topology, apps, simImpl, nextUid, stopFlag,
                 packets, trace, calls>>

\* the event scheduled by Simulator::Stop: the dispatch loop ends
StopEvent ==
  /\ Dispatching
  /\ NextEvent(queue).kind = "Stop"
  /\ Dispatch(NextEvent(queue))
  /\ queue' = queue \ {NextEvent(queue)}
  /\ stopFlag' = TRUE
  /\ simImpl' = "stopped"
  /\ UNCHANGED <<pc, params, topology, apps, nextUid, packets, trace,
                 snapshots, calls>>

\* Simulator::Run has returned
RunReturned == ~(queue # {} /\ ~stopFlag)

\* Simulator::Destroy: the pending events are dropped and every resource
\* of the run is released
Destroy ==
  /\ queue' = {}
  /\ simImpl' = "destroyed"
  /\ stopFlag' = FALSE
  /\ sockets' = {}
  /\ rxBuffer' = <<>>
  /\ destroyCalls' = destroyCalls + 1

\* InstallApplications: Simulator::Destroy ()
InstallApplications_Destroy ==
  /\ pc = "InstallApplications_Run"
  /\ RunReturned
  /\ Destroy
  /\ pc' = "Run_Stop"
  /\ UNCHANGED <<params, topology, flows, appState, now, nextUid, history,
                 stopCalls, runCalls>>

(***************************************************************************)
(* AodvExample::Run, after InstallApplications has returned                *)
(***************************************************************************)
\* Simulator::Stop (Seconds (totalTime)); Simulator::Run (): the scheduler
\* was destroyed, so Stop makes a new one, at time 0
Run_Stop ==
  /\ pc = "Run_Stop"
  /\ now' = 0
  /\ queue' = {Event(0 + StopDelay, nextUid, "Stop", NoNode, NoPkt)}
  /\ nextUid' = nextUid + 1
  /\ stopFlag' = FALSE
  /\ simImpl' = "running"
  /\ stopCalls' = stopCalls + 1
  /\ runCalls' = runCalls + 1
  /\ pc' = "Run_Run"
  /\ UNCHANGED <<params, topology, apps, history, destroyCalls>>

\* Simulator::Destroy ()
Run_Destroy ==
  /\ pc = "Run_Run"
  /\ RunReturned
  /\ Destroy
  /\ pc' = "Report"
  /\ UNCHANGED <<params, topology, flows, appState, now, nextUid, history,
                 stopCalls, runCalls>>

(***************************************************************************)
(* AodvExample::Report and the end of main                                 *)
(***************************************************************************)
Report ==
  /\ pc = "Report"
  /\ pc' = "done"
  /\ UNCHANGED <<params, topology, apps, sched, history, calls>>

Next ==
  \/ Configure
  \/ CreateNodes
  \/ CreateDevices
  \/ InstallInternetStack
  \/ InstallApplications
  \/ StartApplication
  \/ SendPacket
  \/ StopApplication
  \/ Receive
  \/ PrintRoutingTable
  \/ StopEvent
  \/ InstallApplications_Destroy
  \/ Run_Stop
  \/ Run_Destroy
  \/ Report

Spec == Init /\ [][Next]_vars

(***************************************************************************)
(* Properties                                                              *)
(***************************************************************************)
\* InstallApplications has installed the flow and called Simulator::Run
Installed ==
  pc \in {"InstallApplications_Run", "Run_Stop", "Run_Run", "Report", "done"}
\* the Simulator::Run called by InstallApplications has returned
FirstRunOver == pc \in {"Run_Stop", "Run_Run", "Report", "done"}
\* InstallInternetStack has assigned the addresses
StackInstalled == Installed \/ pc \in {"InstallApplications", "aborted"}
\* CreateNodes has run
NodesCreated ==
  StackInstalled \/ pc \in {"CreateDevices", "InstallInternetStack"}

\* C1: for size 0 and size 1 no traffic flow is scheduled and the program
\* runs to its end without aborting.
C1_DegenerateNoFlow ==
  size \in {0, 1} => (flows = <<>> /\ appState = "none" /\ pc # "aborted")

\* C2: the fire times of the dispatched events never decrease, and no event
\* whose fire time is after the configured stop time is dispatched.
C2_DispatchOrder ==
  /\ \A i, j \in 1..Len(dispatched) :
       i < j => dispatched[i].time <= dispatched[j].time
  /\ \A i \in 1..Len(dispatched) :
       dispatched[i].time <= totalTime * TicksPerSecond

\* C2, witness: a run of 5 s has ended; a packet was sent, and the routing
\* table dump (at 8 s) and the stop of the flow (at 10 s), both scheduled,
\* were dropped with the queue.
C2_Witness ==
  /\ pc = "done"
  /\ totalTime = 5
  /\ printRoutes
  /\ Len(packets) >= 1
  /\ Len(dispatched) >= 4
  /\ \A i \in 1..Len(dispatched) :
       dispatched[i].kind \notin {"PrintRoutingTable", "StopApplication"}

\* C3: the simulation is run to completion once; once the scheduler has
\* been destroyed it does not run again and nothing more is scheduled.
C3_SingleRun ==
  /\ runCalls <= 1
  /\ destroyCalls >= 1 => (simImpl # "running" /\ queue = {})

\* C4: with size >= 2 exactly one flow is created, on node 0, to port 80
\* of the address of node size - 1; it starts in [1 s, 2 s) and stops at
\* 10 s, whatever size, step and time are.  No flow exists before it is
\* installed.
C4_OneFlow ==
  /\ ~Installed /\ pc # "aborted" => flows = <<>>
  /\ Installed /\ size >= 2 =>
       /\ Len(flows) = 1
       /\ flows[1].node = 0
       /\ flows[1].remote =
            [type |-> "inet", ip |-> interfaces[size], port |-> 80]
       /\ 1 * TicksPerSecond <= flows[1].start
       /\ flows[1].start < 2 * TicksPerSecond
       /\ flows[1].stop = 10 * TicksPerSecond

\* C4, witness: three nodes, the flow installed with a start time strictly
\* between 1 s and 2 s.
C4_Witness ==
  /\ Installed
  /\ size = 3
  /\ Len(flows) = 1
  /\ flows[1].start > 1 * TicksPerSecond
  /\ flows[1].remote.ip = <<10, 0, 0, 3>>

\* the stop event of the flow was dispatched at 10 s and no packet of the
\* flow was sent after it
FlowStoppedItself ==
  \E i \in 1..Len(dispatched) :
    /\ dispatched[i].kind = "StopApplication"
    /\ dispatched[i].time = 10 * TicksPerSecond
    /\ \A j \in 1..Len(dispatched) : j > i => dispatched[j].kind # "Send"

\* C5 as stated: for every total time, the flow that was created is ended
\* by its own stop event at 10 s, after which it sends nothing.
C5_FlowStopsItself ==
  (pc = "done" /\ flows # <<>>) => FlowStoppedItself

\* C5 as amended: when the total time is more than 10 s, the flow that was
\* created is ended by its own stop event at 10 s, after which it sends
\* nothing; and in no run is a packet sent after the flow's stop event.
C5_FlowStopsWithinWindow ==
  /\ (FirstRunOver /\ flows # <<>> /\ totalTime > 10) => FlowStoppedItself
  /\ \A i, j \in 1..Len(dispatched) :
       (dispatched[i].kind = "StopApplication" /\ j > i)
         => dispatched[j].kind # "Send"

\* C5, witness: a run of 11 s has ended, the flow sent packets and was
\* stopped by its own event.
C5_Witness ==
  /\ pc = "done"
  /\ totalTime = 11
  /\ Len(packets) >= 2
  /\ FlowStoppedItself

\* the events that write a line: a transmit, or a delivery to a socket
LineEvents ==
  SelectSeq(dispatched, LAMBDA e : e.kind \in {"Send", "Receive"})

\* C6: every transmit event and every packet received on a sink socket
\* gives exactly one line, written at the time of the event and in the
\* order of dispatch; the line of a reception is not before, in order or in
\* simulated time, the line of the transmission of the same packet.
C6_TraceLines ==
  /\ Len(trace) = Len(LineEvents)
  /\ \A k \in 1..Len(trace) :
       k <= Len(LineEvents) =>
         /\ trace[k].time = LineEvents[k].time
         /\ trace[k].pkt = LineEvents[k].pkt
         /\ trace[k].kind = (IF LineEvents[k].kind = "Send" THEN "tx" ELSE "rx")
  /\ \A j \in 1..Len(trace) :
       trace[j].kind = "rx" =>
         \E i \in 1..Len(trace) :
           /\ i < j
           /\ trace[i].kind = "tx"
           /\ trace[i].pkt = trace[j].pkt
           /\ trace[i].time <= trace[j].time

\* C6, witness: two packets were sent; one of them was received later than
\* it was sent, and its lines are both in the trace.
C6_Witness ==
  /\ Len(packets) >= 2
  /\ \E i, j \in 1..Len(trace) :
       /\ trace[i].kind = "tx"
       /\ trace[j].kind = "rx"
       /\ trace[i].pkt = trace[j].pkt
       /\ trace[i].time < trace[j].time

\* C7: after InstallInternetStack every node has exactly one radio device
\* and exactly one address; node i has the address 10.0.0.(i + 1), so the
\* addresses are pairwise distinct and lie in 10.0.0.0 / 255.0.0.0.
C7_Addresses ==
  StackInstalled =>
    /\ Len(devices) = size
    /\ Len(interfaces) = size
    /\ \A n \in 0..(size - 1) :
         /\ Cardinality({k \in 1..Len(devices) : devices[k] = n}) = 1
         /\ devices[n + 1] = n
         /\ interfaces[n + 1] = <<10, 0, 0, n + 1>>
    /\ \A a, b \in 1..Len(interfaces) :
         a # b => interfaces[a] # interfaces[b]
    /\ \A a \in 1..Len(interfaces) :
         /\ interfaces[a][1] = 10
         /\ \A k \in 2..4 : interfaces[a][k] \in 0..255

\* C7, witness: three nodes with their addresses assigned.
C7_Witness ==
  /\ pc = "InstallApplications"
  /\ size = 3
  /\ interfaces = <<(<<10, 0, 0, 1>>), (<<10, 0, 0, 2>>), (<<10, 0, 0, 3>>)>>

\* C8: node i is at ((i mod W) * step, (i div W) * step) for the row width
\* W = size, which is the line (i * step, 0).
C8_GridPositions ==
  NodesCreated =>
    /\ Len(nodes) = size
    /\ \A i \in 0..(size - 1) :
         /\ nodes[i + 1].id = i
         /\ nodes[i + 1].pos = <<(i % size) * step, (i \div size) * step>>
         /\ nodes[i + 1].pos = <<i * step, 0>>

\* C8, witness: three nodes one metre apart, the last one at (2, 0).
C8_Witness ==
  /\ NodesCreated
  /\ size = 3
  /\ step = 1
  /\ nodes[3].pos = <<2, 0>>

\* node i has exactly one socket, bound to port 80 of the any-address, with
\* the receive callback set
OneSink(i) ==
  /\ Cardinality({sk \in sockets : sk.node = i}) = 1
  /\ \A sk \in sockets :
       sk.node = i =>
         /\ sk.ip = <<0, 0, 0, 0>>
         /\ sk.port = 80
         /\ sk.cb = "ReceiveRoutingPacket"

\* C9: from the start of the run until the scheduler is destroyed, every
\* node has its one receive socket on port 80, so every packet delivered to
\* a node is seen by the callback; before the setup there is no socket.
C9_SinksBeforeRun ==
  /\ pc \in {"Configure", "CreateNodes", "CreateDevices",
             "InstallInternetStack", "InstallApplications"} => sockets = {}
  /\ (runCalls >= 1 /\ destroyCalls = 0) =>
       /\ Cardinality(sockets) = size
       /\ \A i \in 0..(size - 1) : OneSink(i)
  /\ \A i \in 1..Len(dispatched) :
       dispatched[i].kind = "Receive" =>
         \E k \in 1..Len(trace) :
           /\ trace[k].kind = "rx"
           /\ trace[k].pkt = dispatched[i].pkt
           /\ trace[k].node = dispatched[i].node

\* C9, witness: the run of three nodes is under way, a packet was delivered
\* to the last node and the three sockets are open.
C9_Witness ==
  /\ pc = "InstallApplications_Run"
  /\ size = 3
  /\ Cardinality(sockets) = 3
  /\ \E i \in 1..Len(dispatched) :
       dispatched[i].kind = "Receive" /\ dispatched[i].node = 2

====
